---- MODULE Spec2Model ----
(***************************************************************************)
(* Linked-allocation file store of sistema_encadeado.py: a disk of 32-bit  *)
(* blocks (16 bits of data, 16 bits of successor pointer), a free list     *)
(* threaded through the same blocks, and a directory name -> (start, len). *)
(*                                                                         *)
(* A 32-bit word is the set of its bit positions that hold 1, so that the  *)
(* bitwise operators of the code are set operators here.  A string is the  *)
(* sequence of the code points of its characters (ord / chr).  A file name *)
(* is a string; only its length and its identity matter to the code.       *)
(***************************************************************************)
EXTENDS Integers, Sequences, FiniteSets, TLC

VARIABLES disk, directory, free_head, free_size, last, script

vars == <<disk, directory, free_head, free_size, last, script>>

----------------------------------------------------------------------------
(* Bounds of the model *)

\* number of blocks of the scaled-down disk explored exhaustively
NB == 3
\* cap on free_size in the specification where init_disk may be called again
MaxFree == 4

----------------------------------------------------------------------------
(* Constants of the program *)

NUM_BLOCKS == 32
NULL_PTR == 65535
BLOCK_MASK_16 == 65535
\* free_head = None
None == -1
\* width of a block (TYPECODE 'I') and of one field
WORD_BITS == 32
FIELD_BITS == 16
\* '?', appended by read_file for a block whose data is 0
QUESTION == 63
\* largest argument chr() accepts
MAX_CHR == 1114111

----------------------------------------------------------------------------
(* Bit-level arithmetic of Python's &, | , << and >> on the values the     *)
(* code applies them to.  Every use in the code is masked to 16 bits or is *)
(* a 32-bit block, so bits 0..31 are all that is ever observed.            *)

RECURSIVE BitsFrom(_, _)
\* the positions i..31 that hold 1 in x * 2^i (floor division, as Python's
\* two's complement view of a negative int)
BitsFrom(x, i) ==
    IF i >= WORD_BITS \/ x = 0 THEN {}
    ELSE (IF x % 2 = 1 THEN {i} ELSE {}) \cup BitsFrom(x \div 2, i + 1)

\* the bits 0..31 of integer x in two's complement
BitsOf(x) == BitsFrom(x, 0)

RECURSIVE ToInt(_)
\* the non-negative integer whose 1-bits are w
ToInt(w) == IF w = {} THEN 0
            ELSE LET i == CHOOSE j \in w : TRUE IN 2^i + ToInt(w \ {i})

BitAnd(v, w) == v \cap w
BitOr(v, w) == v \cup w
ShiftLeft(w, k) == {i + k : i \in w}
ShiftRight(w, k) == {i - k : i \in {j \in w : j >= k}}

\* BLOCK_MASK_16 as a word
MaskBits == BitsOf(BLOCK_MASK_16)

\* pack_block with the pointer shifted by 8 instead of 16
pack_block_shift8(data16, ptr16) ==
    BitOr(ShiftLeft(BitAnd(BitsOf(ptr16), MaskBits), 8),
          BitAnd(BitsOf(data16), MaskBits))

\* ((ptr16 & BLOCK_MASK_16) << 16) | (data16 & BLOCK_MASK_16)
pack_block(data16, ptr16) ==
    BitOr(ShiftLeft(BitAnd(BitsOf(ptr16), MaskBits), FIELD_BITS),
          BitAnd(BitsOf(data16), MaskBits))

\* (value & BLOCK_MASK_16, (value >> 16) & BLOCK_MASK_16) = (data16, ptr16)
unpack_block(value) ==
    <<ToInt(BitAnd(value, MaskBits)),
      ToInt(BitAnd(ShiftRight(value, FIELD_BITS), MaskBits))>>

----------------------------------------------------------------------------
(* The state of the module as one record, and the operations on it.  Each  *)
(* operation returns the state after the call together with what the call  *)
(* returned or printed: ok, kind (which branch ended it), result, freed.   *)

State == [disk |-> disk, directory |-> directory,
          free_head |-> free_head, free_size |-> free_size]

NumBlocks(s) == Cardinality(DOMAIN s.disk)

\* the module-level initialisation: a zeroed array, no file, no free list
Load(n) == [disk |-> [i \in 0..(n - 1) |-> {}], directory |-> <<>>,
            free_head |-> None, free_size |-> 0]

Outcome(s, ok, kind, result, freed) ==
    [disk |-> s.disk, directory |-> s.directory, free_head |-> s.free_head,
     free_size |-> s.free_size, ok |-> ok, kind |-> kind, result |-> result,
     freed |-> freed]

RECURSIVE InitLoop(_, _)
\* for i in range(NUM_BLOCKS): disk[i] = pack_block(0, i + 1 or NULL_PTR)
InitLoop(d, i) ==
    IF i >= Cardinality(DOMAIN d) THEN d
    ELSE LET ptr == IF i + 1 < Cardinality(DOMAIN d) THEN i + 1 ELSE NULL_PTR
         IN InitLoop([d EXCEPT ![i] = pack_block(0, ptr)], i + 1)

\* init_disk: rebuilds the chain 0 -> 1 -> ... -> NULL; the directory is not
\* among the globals it assigns
init_disk(s) ==
    Outcome([disk |-> InitLoop(s.disk, 0), directory |-> s.directory,
             free_head |-> 0, free_size |-> NumBlocks(s)],
            TRUE, "Init", <<>>, 0)

----------------------------------------------------------------------------
(* create_file *)

\* directory[name] = entry
Put(dir, name, entry) ==
    [n \in DOMAIN dir \cup {name} |-> IF n = name THEN entry ELSE dir[n]]

\* del directory[name]
Remove(dir, name) == [n \in DOMAIN dir \ {name} |-> dir[n]]

\* free_head if free_head is not None else NULL_PTR
HeadOrNull(s) == IF s.free_head # None THEN s.free_head ELSE NULL_PTR

\* disk[idx] = pack_block(0, free_head or NULL_PTR); free_head = idx;
\* free_size += 1  (the body shared by the rollback and by delete_file)
PushFree(s, idx) ==
    [s EXCEPT !.disk[idx] = pack_block(0, HeadOrNull(s)),
              !.free_head = idx,
              !.free_size = s.free_size + 1]

\* an undo that puts nothing back
RollbackNone(s, allocated, i) == s

RECURSIVE Rollback(_, _, _)
\* for idx in allocated_indices: push idx back
Rollback(s, allocated, i) ==
    IF i > Len(allocated) THEN s
    ELSE Rollback(PushFree(s, allocated[i]), allocated, i + 1)

\* a pop that forgets to decrement free_size
PopFreeNoCount(s) ==
    LET next_free == unpack_block(s.disk[s.free_head])[2]
    IN [s EXCEPT !.free_head = IF next_free # NULL_PTR THEN next_free ELSE None]

\* idx = free_head; free_head = successor of idx, or None; free_size -= 1
PopFree(s) ==
    LET next_free == unpack_block(s.disk[s.free_head])[2]
    IN [s EXCEPT !.free_head = IF next_free # NULL_PTR THEN next_free ELSE None,
                 !.free_size = s.free_size - 1]

RECURSIVE AllocLoop(_, _, _)
\* for _ in range(needed): the defensive check, then one pop
AllocLoop(s, allocated, k) ==
    IF k = 0 THEN [ok |-> TRUE, s |-> s, allocated |-> allocated]
    ELSE IF s.free_head = None \/ s.free_head = NULL_PTR
         THEN [ok |-> FALSE, s |-> Rollback(s, allocated, 1),
               allocated |-> allocated]
         ELSE AllocLoop(PopFree(s), Append(allocated, s.free_head), k - 1)

RECURSIVE AllocLoopContiguous(_, _, _)
\* an allocation that gives up unless each block follows the one before it
AllocLoopContiguous(s, allocated, k) ==
    IF k = 0 THEN [ok |-> TRUE, s |-> s, allocated |-> allocated]
    ELSE IF \/ s.free_head = None \/ s.free_head = NULL_PTR
            \/ (allocated # <<>>
                /\ s.free_head # allocated[Len(allocated)] + 1)
         THEN [ok |-> FALSE, s |-> Rollback(s, allocated, 1),
               allocated |-> allocated]
         ELSE AllocLoopContiguous(PopFree(s), Append(allocated, s.free_head),
                                  k - 1)

\* the allocation loop over contiguous blocks only
AllocateContiguous(s, needed) == AllocLoopContiguous(s, <<>>, needed)

\* the allocation loop of create_file
Allocate(s, needed) == AllocLoop(s, <<>>, needed)

\* a space check that lets every request through
EnoughSpaceAlways(s, needed) == TRUE

\* the comparison with <= in place of <
EnoughSpaceStrict(s, needed) == ~(s.free_size <= needed)

\* not (free_size < needed)
EnoughSpace(s, needed) == ~(s.free_size < needed)

\* the successor written into block i of a new file, always NULL_PTR
NextPtrAllNull(allocated, i) == NULL_PTR

\* allocated_indices[i+1] if i + 1 < len(allocated_indices) else NULL_PTR
NextPtr(allocated, i) ==
    IF i + 1 <= Len(allocated) THEN allocated[i + 1] ELSE NULL_PTR

RECURSIVE WriteLoop(_, _, _, _)
\* for i, ch in enumerate(content): disk[allocated[i]] = pack(ord(ch), next)
WriteLoop(d, allocated, content, i) ==
    IF i > Len(content) THEN d
    ELSE WriteLoop([d EXCEPT ![allocated[i]] =
                        pack_block(content[i], NextPtr(allocated, i))],
                   allocated, content, i + 1)

\* create_file that compares free_size with the content before anything else
create_file_space_first(s, name, content) ==
    IF ~EnoughSpace(s, Len(content))
    THEN Outcome(s, FALSE, "InsufficientSpace", <<>>, 0)
    ELSE IF Len(name) = 0 \/ Len(name) > 4
    THEN Outcome(s, FALSE, "InvalidName", <<>>, 0)
    ELSE IF name \in DOMAIN s.directory
    THEN Outcome(s, FALSE, "DuplicateName", <<>>, 0)
    ELSE IF Len(content) = 0
    THEN Outcome(s, FALSE, "EmptyContent", <<>>, 0)
    ELSE LET a == Allocate(s, Len(content))
         IN IF ~a.ok THEN Outcome(a.s, FALSE, "AllocationFailure", <<>>, 0)
            ELSE Outcome([a.s EXCEPT
                            !.disk = WriteLoop(a.s.disk, a.allocated, content, 1),
                            !.directory = Put(s.directory, name,
                                              <<a.allocated[1], Len(content)>>)],
                         TRUE, "Created", <<>>, 0)

\* create_file that overwrites an existing name instead of rejecting it
create_file_overwrite(s, name, content) ==
    IF Len(name) = 0 \/ Len(name) > 4
    THEN Outcome(s, FALSE, "InvalidName", <<>>, 0)
    ELSE IF Len(content) = 0
    THEN Outcome(s, FALSE, "EmptyContent", <<>>, 0)
    ELSE IF ~EnoughSpace(s, Len(content))
    THEN Outcome(s, FALSE, "InsufficientSpace", <<>>, 0)
    ELSE LET a == Allocate(s, Len(content))
         IN IF ~a.ok THEN Outcome(a.s, FALSE, "AllocationFailure", <<>>, 0)
            ELSE Outcome([a.s EXCEPT
                            !.disk = WriteLoop(a.s.disk, a.allocated, content, 1),
                            !.directory = Put(s.directory, name,
                                              <<a.allocated[1], Len(content)>>)],
                         name \notin DOMAIN s.directory,
                         IF name \in DOMAIN s.directory
                         THEN "DuplicateName" ELSE "Created", <<>>, 0)

\* create_file(name, content)
create_file(s, name, content) ==
    IF Len(name) = 0 \/ Len(name) > 4
    THEN Outcome(s, FALSE, "InvalidName", <<>>, 0)
    ELSE IF name \in DOMAIN s.directory
    THEN Outcome(s, FALSE, "DuplicateName", <<>>, 0)
    ELSE IF Len(content) = 0
    THEN Outcome(s, FALSE, "EmptyContent", <<>>, 0)
    ELSE IF ~EnoughSpace(s, Len(content))
    THEN Outcome(s, FALSE, "InsufficientSpace", <<>>, 0)
    ELSE LET a == Allocate(s, Len(content))
         IN IF ~a.ok THEN Outcome(a.s, FALSE, "AllocationFailure", <<>>, 0)
            ELSE Outcome([a.s EXCEPT
                            !.disk = WriteLoop(a.s.disk, a.allocated, content, 1),
                            !.directory = Put(s.directory, name,
                                              <<a.allocated[1], Len(content)>>)],
                         TRUE, "Created", <<>>, 0)

----------------------------------------------------------------------------
(* read_file and delete_file *)

\* the character read_file appends for a block holding data16
Decode(data16) ==
    IF data16 = 0 THEN QUESTION
    ELSE IF data16 > MAX_CHR THEN QUESTION ELSE data16

RECURSIVE ReadLoopLateCheck(_, _, _, _)
\* a loop that appends the character of a block before it tests for a revisit
ReadLoopLateCheck(s, idx, seen, chars) ==
    IF idx = NULL_PTR THEN [chars |-> chars, loop |-> FALSE, seen |-> seen]
    ELSE LET b == unpack_block(s.disk[idx])
         IN IF idx \in seen
            THEN [chars |-> Append(chars, Decode(b[1])), loop |-> TRUE,
                  seen |-> seen]
            ELSE ReadLoopLateCheck(s, b[2], seen \cup {idx},
                                   Append(chars, Decode(b[1])))

RECURSIVE ReadLoop(_, _, _, _)
\* while idx != NULL_PTR: stop on a revisited index, else append and advance
ReadLoop(s, idx, seen, chars) ==
    IF idx = NULL_PTR THEN [chars |-> chars, loop |-> FALSE, seen |-> seen]
    ELSE IF idx \in seen THEN [chars |-> chars, loop |-> TRUE, seen |-> seen]
    ELSE LET b == unpack_block(s.disk[idx])
         IN ReadLoop(s, b[2], seen \cup {idx}, Append(chars, Decode(b[1])))

\* read_file(name): None for an unknown name, else the characters of the chain
read_file(s, name) ==
    IF name \notin DOMAIN s.directory
    THEN Outcome(s, FALSE, "NotFound", <<>>, 0)
    ELSE LET r == ReadLoop(s, s.directory[name][1], {}, <<>>)
         IN Outcome(s, TRUE, IF r.loop THEN "CycleDetected" ELSE "Read",
                    r.chars, 0)

RECURSIVE DeleteLoop(_, _, _, _)
\* while idx != NULL_PTR: read the successor, push idx, advance
DeleteLoop(s, idx, seen, freed_count) ==
    IF idx = NULL_PTR THEN [s |-> s, loop |-> FALSE, freed |-> freed_count]
    ELSE IF idx \in seen THEN [s |-> s, loop |-> TRUE, freed |-> freed_count]
    ELSE LET next_idx == unpack_block(s.disk[idx])[2]
         IN DeleteLoop(PushFree(s, idx), next_idx, seen \cup {idx},
                       freed_count + 1)

\* delete_file that reports success for a name it does not know
delete_file_unknown_ok(s, name) ==
    IF name \notin DOMAIN s.directory
    THEN Outcome(s, TRUE, "Deleted", <<>>, 0)
    ELSE LET r == DeleteLoop(s, s.directory[name][1], {}, 0)
         IN Outcome([r.s EXCEPT !.directory = Remove(s.directory, name)],
                    TRUE, IF r.loop THEN "CycleDetected" ELSE "Deleted",
                    <<>>, r.freed)

\* delete_file(name): False for an unknown name, else frees the chain
delete_file(s, name) ==
    IF name \notin DOMAIN s.directory
    THEN Outcome(s, FALSE, "NotFound", <<>>, 0)
    ELSE LET r == DeleteLoop(s, s.directory[name][1], {}, 0)
         IN Outcome([r.s EXCEPT !.directory = Remove(s.directory, name)],
                    TRUE, IF r.loop THEN "CycleDetected" ELSE "Deleted",
                    <<>>, r.freed)

----------------------------------------------------------------------------
(* The callers.  The inputs of the exhaustive specifications are two valid *)
(* names, an empty and an over-long name, and strings of every length from *)
(* 0 to one more than the disk holds.                                      *)

Names == {"a", "b", "", "abcde"}

\* 'A', 'B'
Chars == <<65, 66>>

\* the string of n characters that cycles through Chars from the k-th on
Word(k, n) == [i \in 1..n |-> Chars[((k + i - 2) % Len(Chars)) + 1]]

\* the strings "", "A", "B", "AB", "BA", ... and three with a character whose
\* code is 0 or does not fit 16 bits: NUL, U+1F600, 'A' NUL
Contents == {Word(k, n) : k \in 1..Len(Chars), n \in 0..(NB + 1)}
            \cup {<<0>>, <<128512>>, <<65, 0>>}

\* the strings of the specification in which init_disk may be called again:
\* empty, one block, and one block more than the disk holds
ResetContents == {Word(1, n) : n \in {0, 1, NB + 1}}

\* the strings of demo_enunciado
Pernambuco == <<80, 101, 114, 110, 97, 109, 98, 117, 99, 111>>
SaoPaulo == <<83, 97, 111, 32, 80, 97, 117, 108, 111>>
Alagoas == <<65, 108, 97, 103, 111, 97, 115>>
SantaCatarina == <<83, 97, 110, 116, 97, 32, 67, 97, 116, 97, 114, 105, 110, 97>>

\* the calls of the reference scenario, in order
DemoScript ==
    << <<"init", "", <<>> >>,
       <<"create", "f1", Pernambuco>>,
       <<"create", "f2", SaoPaulo>>,
       <<"create", "f3", Alagoas>>,
       <<"create", "f4", SantaCatarina>>,
       <<"delete", "f2", <<>> >>,
       <<"create", "f4", SantaCatarina>>,
       <<"read", "f4", <<>> >>,
       <<"read", "f2", <<>> >> >>

DemoNames == {"f1", "f2", "f3", "f4"}
DemoContents == {Pernambuco, SaoPaulo, Alagoas, SantaCatarina}

\* how far the calls made so far follow DemoScript; -1 once they do not
Advance(op, name, content) ==
    IF script >= 0 /\ script < Len(DemoScript)
       /\ DemoScript[script + 1] = <<op, name, content>>
    THEN script + 1 ELSE -1

\* one call: the globals after it, and the record of the call and of what
\* it returned
Call(op, name, content, outcome) ==
  \E o \in {outcome} :
    /\ disk' = o.disk
    /\ directory' = o.directory
    /\ free_head' = o.free_head
    /\ free_size' = o.free_size
    /\ last' = [op |-> op, name |-> name, content |-> content, ok |-> o.ok,
                kind |-> o.kind, result |-> o.result, freed |-> o.freed]
    /\ script' = Advance(op, name, content)

NoCall(op) ==
    [op |-> op, name |-> "", content |-> <<>>, ok |-> TRUE, kind |-> op,
     result |-> <<>>, freed |-> 0]

InitDisk == Call("init", "", <<>>, init_disk(State))

Create(names, contents) ==
    \E name \in names, content \in contents :
        Call("create", name, content, create_file(State, name, content))

Read(names) ==
    \E name \in names : Call("read", name, <<>>, read_file(State, name))

Delete(names) ==
    \E name \in names : Call("delete", name, <<>>, delete_file(State, name))

\* the globals as s, reached by the call recorded in l
Starts(s, l, sc) ==
    /\ disk = s.disk
    /\ directory = s.directory
    /\ free_head = s.free_head
    /\ free_size = s.free_size
    /\ last = l
    /\ script = sc

\* init_disk, then any sequence of create_file, read_file and delete_file
Init == Starts(init_disk(Load(NB)), NoCall("init"), -1)

Next == \/ Create(Names, Contents)
        \/ Read(Names)
        \/ Delete(Names)

Spec == Init /\ [][Next]_vars

\* any sequence of the four operations from the freshly loaded module; a
\* delete of a file that outlived an init_disk can free a block twice, so
\* free_size is capped
InitLoad == Starts(Load(NB), NoCall("load"), -1)

NextReset == \/ free_size <= MaxFree /\ InitDisk
             \/ Create(Names, ResetContents)
             \/ Read(Names)
             \/ free_size <= MaxFree /\ Delete(Names)

SpecReset == InitLoad /\ [][NextReset]_vars

\* the 32-block disk: init_disk first, then calls on the files of the
\* demonstration for as long as they follow its script, and one call beyond
InitDemo == Starts(Load(NUM_BLOCKS), NoCall("load"), 0)

NextDemo == \/ script = 0 /\ InitDisk
            \/ script > 0 /\ Create(DemoNames, DemoContents)
            \/ script > 0 /\ Read(DemoNames)
            \/ script > 0 /\ Delete(DemoNames)

SpecDemo == InitDemo /\ [][NextDemo]_vars

\* the codec alone: a word is packed from any two of these integers into
\* block 0 of a one-block disk, then unpacked
CodecInputs == {-65537, -1, 0, 1, 65, 255, 256, 32767, 65535, 65536, 65537,
                128512}

Pack == \E c \in CodecInputs, s \in CodecInputs :
            /\ disk' = [disk EXCEPT ![0] = pack_block(c, s)]
            /\ last' = [NoCall("pack") EXCEPT !.content = <<c, s>>]
            /\ UNCHANGED <<directory, free_head, free_size, script>>

Unpack == /\ last.op = "pack"
          /\ last' = [last EXCEPT !.op = "unpack",
                                  !.result = unpack_block(disk[0])]
          /\ UNCHANGED <<disk, directory, free_head, free_size, script>>

InitCodec == Starts(Load(1), NoCall("load"), -1)

NextCodec == Pack \/ Unpack

SpecCodec == InitCodec /\ [][NextCodec]_vars

\* the globals written from outside the four operations: disk, directory,
\* free_head and free_size are plain module attributes.  Every block gets a
\* character and a successor that is NULL or an index of the disk, the
\* directory one file "a" starting anywhere, and the free list any head and
\* any count
CorruptNames == {"a", "b"}
CorruptContents == {Word(1, n) : n \in 1..NB}
Successors == (0..(NB - 1)) \cup {NULL_PTR}

Corrupt ==
    /\ last.op = "load"
    /\ \E ptr \in [0..(NB - 1) -> Successors], start \in 0..(NB - 1),
          head \in (0..(NB - 1)) \cup {None}, size \in 0..NB :
          /\ disk' = [i \in 0..(NB - 1) |-> pack_block(Chars[1] + i, ptr[i])]
          /\ directory' = Put(<<>>, "a", <<start, 1>>)
          /\ free_head' = head
          /\ free_size' = size
    /\ last' = NoCall("corrupt")
    /\ UNCHANGED script

InitCorrupt == Starts(Load(NB), NoCall("load"), -1)

\* one call on the corrupted globals
NextCorrupt == \/ Corrupt
               \/ last.op = "corrupt" /\ Create(CorruptNames, CorruptContents)
               \/ last.op = "corrupt" /\ Read(CorruptNames)
               \/ last.op = "corrupt" /\ Delete(CorruptNames)

SpecCorrupt == InitCorrupt /\ [][NextCorrupt]_vars

----------------------------------------------------------------------------
(* What the properties speak of: chains, read off the disk independently   *)
(* of read_file and delete_file.                                           *)

Range(seq) == {seq[i] : i \in DOMAIN seq}

RECURSIVE Walk(_, _, _)
\* the blocks met following successor pointers from idx; ends is TRUE when
\* the walk reaches NULL, FALSE when it meets a block again or leaves the disk
Walk(d, idx, seq) ==
    IF idx = NULL_PTR THEN [blocks |-> seq, ends |-> TRUE]
    ELSE IF idx \notin DOMAIN d \/ idx \in Range(seq)
    THEN [blocks |-> seq, ends |-> FALSE]
    ELSE Walk(d, unpack_block(d[idx])[2], Append(seq, idx))

\* the free list of a disk d whose free_head is head
FreeChainOf(d, head) == IF head = None THEN [blocks |-> <<>>, ends |-> TRUE]
                        ELSE Walk(d, head, <<>>)

FreeChain == FreeChainOf(disk, free_head)

FileChain(name) == Walk(disk, directory[name][1], <<>>)

ValidName(name) == Len(name) >= 1 /\ Len(name) <= 4

\* the disk as init_disk leaves it
Pristine(d) ==
    \A i \in DOMAIN d :
        unpack_block(d[i]) =
            <<0, IF i + 1 < Cardinality(DOMAIN d) THEN i + 1 ELSE NULL_PTR>>

----------------------------------------------------------------------------
(* C1.  Ownership partition: after init_disk and any sequence of creates   *)
(* and deletes, the blocks reachable from free_head and the blocks         *)
(* reachable from each directory entry's start are pairwise disjoint and   *)
(* together are exactly the blocks 0..NUM_BLOCKS-1.                        *)
OwnershipPartition ==
    LET free == Range(FreeChain.blocks)
        Owned(n) == Range(FileChain(n).blocks)
    IN /\ \A n \in DOMAIN directory : Owned(n) \cap free = {}
       /\ \A m, n \in DOMAIN directory : m # n => Owned(m) \cap Owned(n) = {}
       /\ free \cup UNION {Owned(n) : n \in DOMAIN directory} = DOMAIN disk

\* a delete has just put a two-block file back, in reverse order, while
\* another file remains
OwnershipPartitionWitness ==
    /\ last.op = "delete" /\ last.ok
    /\ directory # <<>>
    /\ free_size >= 2
    /\ FreeChain.blocks[1] > FreeChain.blocks[2]

(* C2.  Free-size accuracy: in every reachable state free_size is the      *)
(* number of blocks met following successors from free_head until NULL,    *)
(* and free_head is None exactly when free_size is 0.                      *)
FreeSizeAccurate ==
    /\ FreeChain.ends
    /\ free_size = Len(FreeChain.blocks)
    /\ (free_head = None) <=> (free_size = 0)

(* C3.  Create/read round trip: a successful create_file(name, s), s not   *)
(* empty and no longer than the disk, immediately followed by              *)
(* read_file(name) returns exactly s.                                      *)
CreateReadRoundTrip ==
    [][(/\ last.op = "create" /\ last.ok
        /\ last'.op = "read" /\ last'.name = last.name)
       => last'.result = last.content]_vars

(* C4.  Space accounting, as claimed: for any name and content,            *)
(* create_file fails with InsufficientSpace iff len(content) > free_size   *)
(* at call time, and free_size is then unchanged.                          *)
SpaceAccountingAnyName ==
    [][last'.op = "create"
       => /\ (last'.kind = "InsufficientSpace")
                <=> (Len(last'.content) > free_size)
          /\ last'.kind = "InsufficientSpace" => free_size' = free_size]_vars

(* C4, amended.  For any content and any name of 1 to 4 characters that is *)
(* not in the directory, create_file fails with InsufficientSpace iff      *)
(* len(content) > free_size at call time, and free_size is then unchanged. *)
SpaceAccounting ==
    [][(/\ last'.op = "create"
        /\ ValidName(last'.name)
        /\ last'.name \notin DOMAIN directory)
       => /\ (last'.kind = "InsufficientSpace")
                <=> (Len(last'.content) > free_size)
          /\ last'.kind = "InsufficientSpace" => free_size' = free_size]_vars

\* a create was refused for lack of space while some blocks were free
SpaceAccountingWitness ==
    /\ last.op = "create" /\ last.kind = "InsufficientSpace"
    /\ free_size >= 1
    /\ Len(last.content) = free_size + 1

(* C5.  A create_file that fails for an invalid name, a duplicate name,    *)
(* empty content or insufficient space leaves disk, directory, free_head   *)
(* and free_size as they were; a duplicate-name create overwrites nothing. *)
FailedCreateChangesNothing ==
    [][(/\ last'.op = "create"
        /\ last'.kind \in {"InvalidName", "DuplicateName", "EmptyContent",
                           "InsufficientSpace"})
       => UNCHANGED <<disk, directory, free_head, free_size>>]_vars

\* a create of an existing name, with content that would have fitted
FailedCreateWitness ==
    /\ last.op = "create" /\ last.kind = "DuplicateName"
    /\ Len(last.content) >= 1
    /\ Len(last.content) <= free_size
    /\ last.name \in DOMAIN directory

(* C6.  Delete reclaims exactly what was allocated: for a name in the      *)
(* directory with recorded length L, delete_file frees exactly L blocks,   *)
(* free_size grows by exactly L, the name leaves the directory, and a      *)
(* read_file of it that follows fails with NotFound.                       *)
DeleteReclaims ==
    [][/\ (last'.op = "delete" /\ last'.name \in DOMAIN directory)
          => /\ last'.freed = directory[last'.name][2]
             /\ free_size' = free_size + directory[last'.name][2]
             /\ last'.name \notin DOMAIN directory'
       /\ (/\ last.op = "delete" /\ last.ok
           /\ last'.op = "read" /\ last'.name = last.name)
          => last'.kind = "NotFound"]_vars

(* C7.  Non-contiguous allocation tolerance: after init_disk and any       *)
(* sequence of creates and deletes, however fragmented or disordered the   *)
(* free list, create_file with a name of 1 to 4 characters not in the      *)
(* directory and content with 1 <= len(content) <= free_size succeeds.     *)
FragmentedCreateSucceeds ==
    \A name \in Names, content \in Contents :
        (/\ ValidName(name)
         /\ name \notin DOMAIN directory
         /\ Len(content) >= 1
         /\ Len(content) <= free_size)
        => create_file(State, name, content).ok

\* a create has just succeeded on blocks that are not in index order
FragmentedCreateWitness ==
    /\ last.op = "create" /\ last.ok
    /\ \E i \in 1..(Len(last.content) - 1) :
           FileChain(last.name).blocks[i] > FileChain(last.name).blocks[i + 1]

(* C8.  init_disk is a hard reset: in any reachable state it leaves block  *)
(* i with content 0 and successor i+1, the last block with successor NULL, *)
(* free_head = 0, free_size = NUM_BLOCKS and an empty directory; a second  *)
(* call in a row changes nothing more.                                     *)
InitDiskHardReset ==
    /\ last.op = "init"
          => /\ Pristine(disk)
             /\ free_head = 0
             /\ free_size = NumBlocks(State)
             /\ directory = <<>>
    /\ LET once == init_disk(State)
           again == init_disk([disk |-> once.disk,
                               directory |-> once.directory,
                               free_head |-> once.free_head,
                               free_size |-> once.free_size])
       IN again = once

(* C9.  Reference scenario on 32 blocks: init_disk; create f1 (10) leaves  *)
(* free_size 22; create f2 (9) leaves 13; create f3 (7) leaves 6; create   *)
(* f4 (14) fails with InsufficientSpace, free_size still 6; delete f2      *)
(* frees 9 and leaves 15; create f4 (14) succeeds and leaves 1; read f4    *)
(* returns the 14 characters in order; read f2 fails with NotFound.        *)
DemoScenario ==
    /\ script = 1 => free_size = 32 /\ directory = <<>>
    /\ script = 2 => last.ok /\ free_size = 22
    /\ script = 3 => last.ok /\ free_size = 13
    /\ script = 4 => last.ok /\ free_size = 6
    /\ script = 5 => ~last.ok /\ last.kind = "InsufficientSpace"
                     /\ free_size = 6
    /\ script = 6 => last.ok /\ last.freed = 9 /\ free_size = 15
    /\ script = 7 => last.ok /\ free_size = 1
    /\ script = 8 => last.ok /\ last.result = SantaCatarina /\ free_size = 1
    /\ script = 9 => ~last.ok /\ last.kind = "NotFound" /\ free_size = 1

\* the whole script has run
DemoScenarioWitness ==
    /\ script = Len(DemoScript)
    /\ last.op = "read" /\ last.name = "f2"
    /\ DOMAIN directory = {"f1", "f3", "f4"}

(* C10.  Block codec round trip: for all integers c and s,                 *)
(* unpack_block(pack_block(c, s)) = (c mod 2^16, s mod 2^16); a pair       *)
(* within 0..65535 comes back unchanged; and the two fields do not overlap *)
(* in the 32-bit word: each field of the word depends on its own argument  *)
(* only, and the word is the disjoint union of the two.                    *)
CodecRoundTrip ==
    last.op = "unpack" =>
        LET c == last.content[1]
            s == last.content[2]
        IN /\ last.result = <<c % 65536, s % 65536>>
           /\ (c \in 0..65535 /\ s \in 0..65535) => last.result = <<c, s>>
           /\ disk[0] \subseteq 0..(WORD_BITS - 1)
           /\ disk[0] = pack_block(c, 0) \cup pack_block(0, s)
           /\ pack_block(c, 0) \cap pack_block(0, s) = {}
           /\ unpack_block(pack_block(c, 0)) = <<c % 65536, 0>>
           /\ unpack_block(pack_block(0, s)) = <<0, s % 65536>>

\* a pair that does not fit 16 bits has been packed and unpacked
CodecRoundTripWitness ==
    /\ last.op = "unpack"
    /\ last.content = <<65537, -1>>
    /\ last.result = <<1, 65535>>

(* C11.  read_file and delete_file called with a name that is not in the   *)
(* directory fail with NotFound and leave disk, directory, free_head and   *)
(* free_size unchanged.                                                    *)
UnknownNameNotFound ==
    [][(/\ last'.op \in {"read", "delete"}
        /\ last'.name \notin DOMAIN directory)
       => /\ ~last'.ok
          /\ last'.kind = "NotFound"
          /\ UNCHANGED <<disk, directory, free_head, free_size>>]_vars

\* a delete of a name that is not there, while another file is
UnknownNameWitness ==
    /\ last.op = "delete" /\ last.kind = "NotFound"
    /\ directory # <<>>
    /\ last.name \notin DOMAIN directory

(* C12.  Directory entry invariant: in every reachable state, for every    *)
(* entry name -> (start, length), start is a block of the disk, following  *)
(* successors from start meets exactly length distinct blocks and the last *)
(* one's successor is NULL; every name has 1 to 4 characters.              *)
DirectoryEntriesSound ==
    \A n \in DOMAIN directory :
        /\ ValidName(n)
        /\ directory[n][1] \in DOMAIN disk
        /\ FileChain(n).ends
        /\ Len(FileChain(n).blocks) = directory[n][2]

(* C13.  Allocation order of create_file: on a successful create of n      *)
(* characters the new file's chain is exactly the first n blocks of the    *)
(* free list as it was at call time, in free-list order (its start is the  *)
(* old free_head), block k of the chain holds the code of the k-th         *)
(* character, and the free list afterwards is the remaining suffix of the  *)
(* old free list in unchanged order.                                       *)
AllocationOrder ==
    [][(last'.op = "create" /\ last'.ok)
       => LET n == Len(last'.content)
              old == FreeChain.blocks
              chain == Walk(disk', directory'[last'.name][1], <<>>)
              after == FreeChainOf(disk', free_head')
          IN /\ chain.ends
             /\ chain.blocks = SubSeq(old, 1, n)
             /\ directory'[last'.name] = <<free_head, n>>
             /\ \A k \in 1..n :
                    unpack_block(disk'[old[k]])[1] = last'.content[k]
             /\ after.ends
             /\ after.blocks = SubSeq(old, n + 1, Len(old))]_vars

(* C14.  Free-list order after delete_file: deleting a file whose chain is *)
(* b1, ..., bL leaves a free list that is bL, ..., b1 followed by the free *)
(* list as it was before the call, every one of b1..bL holding content 0;  *)
(* no block of the chain is skipped or freed twice.                        *)
DeleteFreeListOrder ==
    [][(last'.op = "delete" /\ last'.name \in DOMAIN directory)
       => LET chain == FileChain(last'.name).blocks
              old == FreeChain.blocks
              L == Len(chain)
              after == FreeChainOf(disk', free_head')
          IN /\ after.ends
             /\ after.blocks =
                    [i \in 1..L |-> chain[L + 1 - i]] \o old
             /\ \A i \in 1..L : unpack_block(disk'[chain[i]])[1] = 0
             /\ last'.freed = L]_vars

(* C15.  Corruption guards are unreachable: after init_disk and any         *)
(* sequence of create_file, read_file and delete_file calls, no call has    *)
(* taken the "free list unexpectedly empty" branch of create_file or the    *)
(* "loop detected" branch of read_file or delete_file.                      *)
GuardsUnreachable ==
    last.kind \notin {"AllocationFailure", "CycleDetected"}

\* a create that took the last free blocks, on a disk that had been fragmented
GuardsUnreachableWitness ==
    /\ last.op = "create" /\ last.ok
    /\ Len(last.content) > 1
    /\ free_head = None /\ free_size = 0
    /\ Cardinality(DOMAIN directory) > 1

(* C16.  Validation precedence in create_file: a name of length 0 or more  *)
(* than 4 is rejected as InvalidName whatever the content and free space;  *)
(* otherwise a name already in the directory is rejected as DuplicateName; *)
(* otherwise empty content is rejected as EmptyContent; only then is       *)
(* free_size compared with len(content) for InsufficientSpace.             *)
ValidationPrecedence ==
    [][last'.op = "create"
       => LET name == last'.name
              needed == Len(last'.content)
              rejections == {"InvalidName", "DuplicateName", "EmptyContent",
                             "InsufficientSpace"}
          IN IF ~ValidName(name) THEN last'.kind = "InvalidName"
             ELSE IF name \in DOMAIN directory
                  THEN last'.kind = "DuplicateName"
             ELSE IF needed = 0 THEN last'.kind = "EmptyContent"
             ELSE IF free_size < needed
                  THEN last'.kind = "InsufficientSpace"
             ELSE last'.kind \notin rejections]_vars

\* an existing name offered with more content than there is free space
ValidationPrecedenceWitness ==
    /\ last.op = "create" /\ last.kind = "DuplicateName"
    /\ Len(last.content) > free_size
    /\ free_size > 0

(* C17.  Termination under corruption: on a disk whose successor fields    *)
(* are each NULL or an index of the disk (cycles allowed), read_file and   *)
(* delete_file of an existing directory entry visit at most NUM_BLOCKS     *)
(* blocks, the blocks met from the entry's start before the first          *)
(* revisited index, and read_file returns the characters of those blocks.  *)
TerminationUnderCorruption ==
    [][(last'.op \in {"read", "delete"} /\ last'.name \in DOMAIN directory)
       => LET w == FileChain(last'.name).blocks
          IN /\ Len(w) <= NumBlocks(State)
             /\ last'.op = "read" =>
                    last'.result =
                        [i \in 1..Len(w) |-> Decode(unpack_block(disk[w[i]])[1])]
             /\ last'.op = "delete" => last'.freed = Len(w)]_vars

\* a read that met a cycle of more than one block after a block outside it
TerminationUnderCorruptionWitness ==
    /\ last.op = "read" /\ last.kind = "CycleDetected"
    /\ Len(last.result) = NB
    /\ unpack_block(disk[directory[last.name][1]])[2] # directory[last.name][1]
    /\ \E i \in DOMAIN disk :
           /\ i # directory[last.name][1]
           /\ unpack_block(disk[FileChain(last.name).blocks[NB]])[2] = i

(* C18.  File isolation and read stability, for the call that follows a *)
(* successful create_file(name, s): a create_file, read_file or            *)
(* delete_file on another name leaves name in the directory and reading    *)
(* the same string as before that call; read_file itself changes neither   *)
(* the disk array, the directory, free_head nor free_size.                 *)
FileIsolation ==
    [][(/\ last.op = "create" /\ last.ok
        /\ last'.op \in {"create", "read", "delete"})
       => /\ last'.name # last.name =>
                 /\ last.name \in DOMAIN directory'
                 /\ read_file([disk |-> disk', directory |-> directory',
                               free_head |-> free_head',
                               free_size |-> free_size'], last.name).result
                        = read_file(State, last.name).result
          /\ last'.op = "read" =>
                 UNCHANGED <<disk, directory, free_head, free_size>>]_vars
(* C19.  Allocation rollback: if create_file starts from a state where     *)
(* free_size overstates the real free-list length, so that the free list   *)
(* runs out after k < needed pops, the call fails, the directory is        *)
(* unchanged, free_size equals its value at call time, and the free list   *)
(* contains exactly the same set of k blocks as at call time, each with    *)
(* content 0 and ending in NULL.                                           *)
AllocationRollback ==
    [][(/\ last'.op = "create"
        /\ ValidName(last'.name) /\ last'.name \notin DOMAIN directory
        /\ Len(last'.content) > 0
        /\ free_size >= Len(last'.content)
        /\ FreeChain.ends
        /\ Len(FreeChain.blocks) < Len(last'.content))
       => LET after == FreeChainOf(disk', free_head')
          IN /\ ~last'.ok
             /\ last'.kind = "AllocationFailure"
             /\ directory' = directory
             /\ free_size' = free_size
             /\ after.ends
             /\ Range(after.blocks) = Range(FreeChain.blocks)
             /\ Len(after.blocks) = Len(FreeChain.blocks)
             /\ \A b \in Range(FreeChain.blocks) :
                    unpack_block(disk'[b])[1] = 0]_vars

\* a create that ran out of free blocks after two pops and put them back
AllocationRollbackWitness ==
    /\ last.op = "create" /\ last.kind = "AllocationFailure"
    /\ Len(last.content) = NB
    /\ FreeChain.ends /\ Len(FreeChain.blocks) = NB - 1
    /\ free_size = NB

====
